---- MODULE Spec2Model ----
(***************************************************************************)
(* The data-cleaning pipeline of services/data_cleaning.py (clean_data and *)
(* its five passes) as a state machine over tables of transaction rows.    *)
(*                                                                         *)
(* A table is a sequence of rows; a row is a record with the eight columns *)
(* of the input file.  Numeric cells are IEEE doubles in the program; here *)
(* they are exact rationals extended with NaN (pandas' missing value) and  *)
(* the two infinities, with the arithmetic numpy applies to them           *)
(* (x/0 = +-inf, 0/0 = NaN, 0*inf = NaN, comparisons with NaN are false).  *)
(* Input cells are finite or missing; negative zero is not distinguished.  *)
(***************************************************************************)
EXTENDS Integers, Sequences, FiniteSets, TLC

VARIABLES
    pc,           \* the statement of clean_data (or of the called pass) that runs next
    raw,          \* the caller's table: the object passed in, as it is now
    input,        \* the table the pass that ran last was called with
    df,           \* the current table (cleaned_df / df in the source)
    final_check,  \* the reconciler's post-rounding recheck, one flag per row
    ref,          \* the object df is: "arg", the caller's table itself, or
                  \* "own", a table made by the callee (copy, dropna, ...)
    writes        \* main's writes to the sinks so far, in order

vars == <<pc, raw, input, df, final_check, ref, writes>>

-----------------------------------------------------------------------------
(* Floating-point cells                                                    *)

Abs(i) == IF i < 0 THEN -i ELSE i

RECURSIVE Gcd(_, _)
Gcd(a, b) == IF b = 0 THEN a ELSE Gcd(b, a % b)

Sign(i) == IF i > 0 THEN 1 ELSE IF i < 0 THEN -1 ELSE 0

\* the finite value n/d, in lowest terms with a positive denominator
Fin(n, d) ==
    LET g == Gcd(Abs(n), Abs(d))
        s == Sign(d)
    IN  [k |-> "fin", n |-> (s * n) \div g, d |-> (s * d) \div g]

\* (n1 / d1) * (n2 / d2) for d1, d2 # 0, cancelling before multiplying
Ratio(n1, d1, n2, d2) ==
    LET g1 == Gcd(Abs(n1), Abs(d1))
        g2 == Gcd(Abs(n2), Abs(d2))
    IN  Fin((n1 \div g1) * (n2 \div g2), (d1 \div g1) * (d2 \div g2))

NaN == [k |-> "nan", n |-> 0, d |-> 1]

Inf(s) == [k |-> "inf", n |-> s, d |-> 1]

isna(x) == x.k = "nan"

notna(x) == ~isna(x)

isfinite(x) == x.k = "fin"

\* a / b as numpy divides two float64 columns element-wise
FDiv(a, b) ==
    IF isna(a) \/ isna(b) THEN NaN
    ELSE IF isfinite(a) /\ isfinite(b)
         THEN IF b.n = 0
              THEN (IF a.n = 0 THEN NaN ELSE Inf(Sign(a.n)))
              ELSE Ratio(a.n, b.n, b.d, a.d)
    ELSE IF isfinite(a) THEN Fin(0, 1)
    ELSE IF isfinite(b) THEN Inf(a.n * (IF b.n < 0 THEN -1 ELSE 1))
    ELSE NaN

\* a * b as numpy multiplies two float64 columns element-wise
FMul(a, b) ==
    IF isna(a) \/ isna(b) THEN NaN
    ELSE IF isfinite(a) /\ isfinite(b) THEN Ratio(a.n, b.d, b.n, a.d)
    ELSE IF Sign(a.n) * Sign(b.n) = 0 THEN NaN
    ELSE Inf(Sign(a.n) * Sign(b.n))

\* column > c for an integer literal c
FGt(a, c) ==
    CASE isna(a) -> FALSE
      [] isfinite(a) -> a.n > c * a.d
      [] OTHER -> a.n > 0

\* round-half-to-even of n/d (d > 0) to an integer, as numpy's rint
RoundHalfEven(n, d) ==
    LET f == n \div d
        r == n - f * d
    IN  IF 2 * r < d THEN f
        ELSE IF 2 * r > d THEN f + 1
        ELSE IF f % 2 = 0 THEN f ELSE f + 1

\* Series.round(decimals) for decimals = 0 and 2; NaN and the infinities stay
FRound(a, decimals) ==
    IF ~isfinite(a) THEN a
    ELSE IF decimals = 0 THEN Fin(RoundHalfEven(a.n, a.d), 1)
    ELSE Fin(RoundHalfEven(100 * a.n, a.d), 100)

atol == Fin(1, 100)

\* numpy.isclose(a, b, rtol=0, atol=atol): |a - b| <= atol on finite values,
\* equality on infinities, False on NaN
isclose(a, b) ==
    IF isfinite(a) /\ isfinite(b)
    THEN Abs(a.n * b.d - b.n * a.d) * atol.d <= atol.n * a.d * b.d
    ELSE IF isna(a) \/ isna(b) THEN FALSE
    ELSE a = b

-----------------------------------------------------------------------------
(* Tables                                                                  *)

\* the rows of t at the positions keep(i) holds for, in t's order
Filter(t, keep(_)) ==
    LET F[i \in 0..Len(t)] ==
            IF i = 0 THEN <<>>
            ELSE IF keep(i) THEN Append(F[i - 1], t[i]) ELSE F[i - 1]
    IN  F[Len(t)]

Map(t, f(_)) == [i \in 1..Len(t) |-> f(t[i])]

\* raw is a table of at most n rows of Rows, each row given its position as
\* transaction_id
RawTableOf(Rows, n) ==
    \E m \in 0..n : \E t \in [1..m -> Rows] :
        raw = [i \in 1..m |-> [t[i] EXCEPT !.transaction_id = i]]

\* the caller's table after a pass has assigned t to its df in place
\* (df.loc[...] = ..., df[col] = ...): the caller sees the assignment when df
\* is the caller's own object
assigned_in_place(t) == IF ref = "arg" THEN t ELSE raw

-----------------------------------------------------------------------------
(* 1. _handle_missing_values                                               *)

\* the three repairs on one row, in the order the source applies them to the
\* table; each mask is computed from the table as the earlier repairs left it
repair_missing(r) ==
    LET mask_p == isna(r.price_per_unit) /\ notna(r.quantity) /\ notna(r.total_price)
        r1 == IF mask_p
              THEN [r EXCEPT !.price_per_unit = FDiv(r.total_price, r.quantity)]
              ELSE r
        mask_q == isna(r1.quantity) /\ notna(r1.price_per_unit) /\ notna(r1.total_price)
        r2 == IF mask_q
              THEN [r1 EXCEPT !.quantity = FDiv(r1.total_price, r1.price_per_unit)]
              ELSE r1
        mask_t == isna(r2.total_price) /\ notna(r2.quantity) /\ notna(r2.price_per_unit)
    IN  IF mask_t
        THEN [r2 EXCEPT !.total_price = FMul(r2.quantity, r2.price_per_unit)]
        ELSE r2

\* a dropna that forgets to look at the quantity column
dropna_critical_no_quantity(t) ==
    Filter(t, LAMBDA i : notna(t[i].price_per_unit) /\ notna(t[i].total_price))

\* df.dropna(subset=['price_per_unit', 'quantity', 'total_price'])
dropna_critical(t) ==
    Filter(t, LAMBDA i : /\ notna(t[i].price_per_unit)
                         /\ notna(t[i].quantity)
                         /\ notna(t[i].total_price))

_handle_missing_values(t) == dropna_critical(Map(t, repair_missing))

call_handle_missing_values ==
    /\ pc = "missing"
    /\ input' = df
    /\ df' = _handle_missing_values(df)
    /\ raw' = assigned_in_place(Map(df, repair_missing))
    /\ ref' = "own"
    /\ pc' = "names"
    /\ UNCHANGED <<final_check, writes>>

-----------------------------------------------------------------------------
(* Inputs of the missing-value pass                                        *)

MaxMissingRows == 2

BaseRow ==
    [transaction_id |-> 0, customer_id |-> "CUST001", product_id |-> "PROD001",
     product_name |-> <<"l", "a", "p", "t", "o", "p">>,
     quantity |-> Fin(2, 1), price_per_unit |-> Fin(10, 1), total_price |-> Fin(20, 1),
     transaction_date |-> NaN]

MissingQuantities == {NaN, Fin(0, 1), Fin(2, 1)}
MissingPrices == {NaN, Fin(0, 1), Fin(10, 1)}
MissingTotals == {NaN, Fin(0, 1), Fin(20, 1), Fin(-5, 1)}

MissingRows ==
    {[BaseRow EXCEPT !.quantity = q, !.price_per_unit = p, !.total_price = t] :
        q \in MissingQuantities, p \in MissingPrices, t \in MissingTotals}

InitMissing ==
    /\ pc = "missing"
    /\ RawTableOf(MissingRows, MaxMissingRows)
    /\ df = raw
    /\ ref = "arg"
    /\ input = <<>>
    /\ final_check = <<>>
    /\ writes = <<>>

NextMissing == call_handle_missing_values

SpecMissing == InitMissing /\ [][NextMissing]_vars

\* the row of table t that carries transaction_id id (ids are unique in a table)
HasId(t, id) == \E j \in 1..Len(t) : t[j].transaction_id = id

RowOf(t, id) == t[CHOOSE j \in 1..Len(t) : t[j].transaction_id = id]

NMissing(r) ==
    Cardinality({f \in {"quantity", "price_per_unit", "total_price"} : isna(r[f])})

IsZero(x) == isfinite(x) /\ x.n = 0

\* exactly one field is missing and the quotient that would fill it is 0/0
RepairUndefined(r) ==
    /\ NMissing(r) = 1
    /\ \/ isna(r.price_per_unit) /\ IsZero(r.total_price) /\ IsZero(r.quantity)
       \/ isna(r.quantity) /\ IsZero(r.total_price) /\ IsZero(r.price_per_unit)

MissingPassReturned == pc = "names"

C10_SurvivorsSatisfyRelation ==
    MissingPassReturned =>
        \A j \in 1..Len(df) :
            LET r == RowOf(input, df[j].transaction_id)
                o == df[j]
            IN  /\ NMissing(r) <= 1
                /\ \A f \in {"quantity", "price_per_unit", "total_price"} :
                       notna(r[f]) => o[f] = r[f]
                /\ NMissing(r) = 1 =>
                       /\ isfinite(o.quantity) /\ isfinite(o.price_per_unit)
                       /\ o.total_price = FMul(o.quantity, o.price_per_unit)

-----------------------------------------------------------------------------
(* 2. _normalize_product_names                                             *)
(*                                                                         *)
(* A product name is the sequence of its characters.                       *)

LowerLetters == <<"a", "b", "c", "d", "e", "f", "g", "h", "i", "j", "k", "l", "m", "n", "o", "p", "q", "r", "s", "t", "u", "v", "w", "x", "y", "z">>

UpperLetters == <<"A", "B", "C", "D", "E", "F", "G", "H", "I", "J", "K", "L", "M", "N", "O", "P", "Q", "R", "S", "T", "U", "V", "W", "X", "Y", "Z">>

IsUpper(c) == \E i \in 1..Len(UpperLetters) : UpperLetters[i] = c

IsLower(c) == \E i \in 1..Len(LowerLetters) : LowerLetters[i] = c

lower_char(c) ==
    IF IsUpper(c) THEN LowerLetters[CHOOSE i \in 1..Len(UpperLetters) : UpperLetters[i] = c]
    ELSE c

upper_char(c) ==
    IF IsLower(c) THEN UpperLetters[CHOOSE i \in 1..Len(LowerLetters) : LowerLetters[i] = c]
    ELSE c

\* str.lower
lower(name) == [i \in 1..Len(name) |-> lower_char(name[i])]

\* str.strip: without the leading and trailing blanks
strip(name) ==
    LET solid == {i \in 1..Len(name) : name[i] # " "}
    IN  IF solid = {} THEN <<>>
        ELSE LET first == CHOOSE i \in solid : \A j \in solid : i <= j
                 last == CHOOSE i \in solid : \A j \in solid : i >= j
             IN  SubSeq(name, first, last)

\* str.title: a letter that follows a letter is lower-cased, any other letter
\* upper-cased
title(name) ==
    [i \in 1..Len(name) |->
        IF i > 1 /\ (IsUpper(name[i - 1]) \/ IsLower(name[i - 1]))
        THEN lower_char(name[i])
        ELSE upper_char(name[i])]

\* the elements of a pattern: a literal character, or an optional character
\* class
Lit(chars) == [i \in 1..Len(chars) |-> [chars |-> {chars[i]}, opt |-> FALSE]]

Opt(chars) == [chars |-> chars, opt |-> TRUE]

\* PRODUCT_MAPPING, in the order of the dict; [-\s] is "-" or a blank
PRODUCT_MAPPING ==
    <<
       [pattern |-> Lit(<<"u", "s", "b">>) \o <<Opt({"-", " "})>> \o Lit(<<"c">>),
        replacement |-> <<"U", "S", "B", "-", "C", " ", "C", "a", "b", "l", "e">>],
       [pattern |-> Lit(<<"u", "s", "b", "c">>),
        replacement |-> <<"U", "S", "B", "-", "C", " ", "C", "a", "b", "l", "e">>],
       [pattern |-> Lit(<<"w", "e", "b", "c", "a", "m">>),
        replacement |-> <<"W", "e", "b", "c", "a", "m">>],
       [pattern |-> Lit(<<"m", "o", "u", "s", "e">>),
        replacement |-> <<"M", "o", "u", "s", "e">>],
       [pattern |-> Lit(<<"k", "e", "y", "b", "o", "a", "r", "d">>),
        replacement |-> <<"K", "e", "y", "b", "o", "a", "r", "d">>],
       [pattern |-> Lit(<<"l", "a", "p", "t", "o", "p">>),
        replacement |-> <<"L", "a", "p", "t", "o", "p">>],
       [pattern |-> Lit(<<"m", "o", "n", "i", "t", "o", "r">>),
        replacement |-> <<"M", "o", "n", "i", "t", "o", "r">>],
       [pattern |-> Lit(<<"t", "a", "b", "l", "e", "t">>),
        replacement |-> <<"T", "a", "b", "l", "e", "t">>],
       [pattern |-> Lit(<<"p", "r", "i", "n", "t", "e", "r">>),
        replacement |-> <<"P", "r", "i", "n", "t", "e", "r">>],
       [pattern |-> Lit(<<"h", "e", "a", "d", "p", "h", "o", "n", "e", "s">>),
        replacement |-> <<"H", "e", "a", "d", "p", "h", "o", "n", "e", "s">>],
       [pattern |-> Lit(<<"c", "h", "a", "r", "g", "e", "r">>),
        replacement |-> <<"C", "h", "a", "r", "g", "e", "r">>],
       [pattern |-> Lit(<<"s", "m", "a", "r", "t", "p", "h", "o", "n", "e">>),
        replacement |-> <<"S", "m", "a", "r", "t", "p", "h", "o", "n", "e">>]
    >>

\* the pattern from its k-th element on matches name at position i
RECURSIVE match_at(_, _, _, _)
match_at(pattern, k, name, i) ==
    IF k > Len(pattern) THEN TRUE
    ELSE \/ /\ i <= Len(name)
            /\ lower_char(name[i]) \in pattern[k].chars
            /\ match_at(pattern, k + 1, name, i + 1)
         \/ /\ pattern[k].opt
            /\ match_at(pattern, k + 1, name, i)

\* the pattern from its k-th element on matches name from position i to its end
RECURSIVE fullmatch_at(_, _, _, _)
fullmatch_at(pattern, k, name, i) ==
    IF k > Len(pattern) THEN i = Len(name) + 1
    ELSE \/ /\ i <= Len(name)
            /\ lower_char(name[i]) \in pattern[k].chars
            /\ fullmatch_at(pattern, k + 1, name, i + 1)
         \/ /\ pattern[k].opt
            /\ fullmatch_at(pattern, k + 1, name, i)

\* re.fullmatch in the place of re.search
search_whole_name(pattern, name) == fullmatch_at(pattern, 1, name, 1)

\* re.search(pattern, name, re.IGNORECASE)
search(pattern, name) == \E i \in 1..(Len(name) + 1) : match_at(pattern, 1, name, i)

\* a loop that lets a later matching rule overwrite an earlier one
first_match_last_rule(name, i) ==
    LET hits == {j \in i..Len(PRODUCT_MAPPING) : search(PRODUCT_MAPPING[j].pattern, name)}
    IN  IF hits = {} THEN title(name)
        ELSE PRODUCT_MAPPING[CHOOSE j \in hits : \A k \in hits : k <= j].replacement

\* the loop over PRODUCT_MAPPING.items() from the i-th rule on
RECURSIVE first_match(_, _)
first_match(name, i) ==
    IF i > Len(PRODUCT_MAPPING) THEN title(name)
    ELSE IF search(PRODUCT_MAPPING[i].pattern, name) THEN PRODUCT_MAPPING[i].replacement
    ELSE first_match(name, i + 1)

normalize_product_name(name) == first_match(name, 1)

normalize_row(r) ==
    [r EXCEPT !.product_name = normalize_product_name(lower(strip(r.product_name)))]

_normalize_product_names(t) == Map(t, normalize_row)

call_normalize_product_names ==
    /\ pc = "names"
    /\ input' = df
    /\ df' = _normalize_product_names(df)
    /\ raw' = assigned_in_place(_normalize_product_names(df))
    /\ pc' = "dates"
    /\ UNCHANGED <<final_check, ref, writes>>

-----------------------------------------------------------------------------
(* Inputs of the normalizer                                                *)

MaxNameRows == 2

\* the names of test_product_mapping, then names that several rules match,
\* names that no rule matches, and names that are already normalized
RawNames ==
    { <<" ", " ", "l", "a", "p", "t", "o", "p", " ", " ">>,
      <<"w", "i", "r", "e", "l", "e", "s", "s", " ", "m", "o", "u", "s", "e">>,
      <<"u", "s", "b", "-", "c", " ", "c", "a", "b", "l", "e">>,
      <<"U", "S", "B", "-", "C">>,
      <<"w", "e", "b", "c", "a", "m">>,
      <<"k", "e", "y", "b", "o", "a", "r", "d">>,
      <<"u", "s", "b", "-", "c", " ", "m", "o", "u", "s", "e">>,
      <<"u", "s", "b", " ", "c", " ", "c", "h", "a", "r", "g", "e", "r">>,
      <<"U", "S", "B", "C", " ", "h", "u", "b">>,
      <<"s", "m", "a", "r", "t", "p", "h", "o", "n", "e", " ", "c", "h", "a", "r", "g", "e", "r">>,
      <<"g", "a", "d", "g", "e", "t", " ", "p", "r", "o">>,
      <<"3", "d", " ", "p", "e", "n">>,
      <<"L", "a", "p", "t", "o", "p">>,
      <<"U", "S", "B", "-", "C", " ", "C", "a", "b", "l", "e">>,
      <<"G", "a", "d", "g", "e", "t", " ", "P", "r", "o">>,
      <<"H", "E", "A", "D", "P", "H", "O", "N", "E", "S">>,
      <<"m", "o", "n", "i", "t", "o", "r">>,
      <<"s", "m", "a", "r", "t", "p", "h", "o", "n", "e">> }

NameRows == {[BaseRow EXCEPT !.product_name = n] : n \in RawNames}

InitNames ==
    /\ pc = "names"
    /\ RawTableOf(NameRows, MaxNameRows)
    /\ df = raw
    /\ ref = "arg"
    /\ input = <<>>
    /\ final_check = <<>>
    /\ writes = <<>>

NextNames == call_normalize_product_names

SpecNames == InitNames /\ [][NextNames]_vars

NamesPassReturned == pc = "dates"

\* the rules in their listed order: the texts each pattern stands for, and the
\* canonical name
ListedRules ==
    << [texts |-> {<<"u", "s", "b", "c">>, <<"u", "s", "b", "-", "c">>, <<"u", "s", "b", " ", "c">>},
        label |-> <<"U", "S", "B", "-", "C", " ", "C", "a", "b", "l", "e">>],
       [texts |-> {<<"u", "s", "b", "c">>},
        label |-> <<"U", "S", "B", "-", "C", " ", "C", "a", "b", "l", "e">>],
       [texts |-> {<<"w", "e", "b", "c", "a", "m">>},
        label |-> <<"W", "e", "b", "c", "a", "m">>],
       [texts |-> {<<"m", "o", "u", "s", "e">>},
        label |-> <<"M", "o", "u", "s", "e">>],
       [texts |-> {<<"k", "e", "y", "b", "o", "a", "r", "d">>},
        label |-> <<"K", "e", "y", "b", "o", "a", "r", "d">>],
       [texts |-> {<<"l", "a", "p", "t", "o", "p">>},
        label |-> <<"L", "a", "p", "t", "o", "p">>],
       [texts |-> {<<"m", "o", "n", "i", "t", "o", "r">>},
        label |-> <<"M", "o", "n", "i", "t", "o", "r">>],
       [texts |-> {<<"t", "a", "b", "l", "e", "t">>},
        label |-> <<"T", "a", "b", "l", "e", "t">>],
       [texts |-> {<<"p", "r", "i", "n", "t", "e", "r">>},
        label |-> <<"P", "r", "i", "n", "t", "e", "r">>],
       [texts |-> {<<"h", "e", "a", "d", "p", "h", "o", "n", "e", "s">>},
        label |-> <<"H", "e", "a", "d", "p", "h", "o", "n", "e", "s">>],
       [texts |-> {<<"c", "h", "a", "r", "g", "e", "r">>},
        label |-> <<"C", "h", "a", "r", "g", "e", "r">>],
       [texts |-> {<<"s", "m", "a", "r", "t", "p", "h", "o", "n", "e">>},
        label |-> <<"S", "m", "a", "r", "t", "p", "h", "o", "n", "e">>] >>

Contains(name, text) ==
    \E i \in 1..(Len(name) - Len(text) + 1) : SubSeq(name, i, i + Len(text) - 1) = text

\* the listed rules that match somewhere in name
MatchingRules(name) ==
    {j \in 1..Len(ListedRules) : \E text \in ListedRules[j].texts : Contains(name, text)}

IsLetter(c) == IsUpper(c) \/ IsLower(c)

\* out is name with the first letter of every run of letters in upper case and
\* every other letter in lower case
IsTitleCaseOf(out, name) ==
    /\ Len(out) = Len(name)
    /\ \A k \in 1..Len(name) :
           out[k] = IF k > 1 /\ IsLetter(name[k - 1]) THEN lower_char(name[k])
                    ELSE upper_char(name[k])

\* C11: the normalizer gives every product name the canonical name of the
\* first rule, in the listed order, that matches anywhere in the trimmed
\* lower-cased name, whatever later rules match as well; a name that no rule
\* matches becomes its trimmed name in title case.
C11_FirstListedRuleWins ==
    NamesPassReturned =>
        /\ Len(df) = Len(input)
        /\ \A i \in 1..Len(input) :
               LET name == lower(strip(input[i].product_name))
                   hits == MatchingRules(name)
                   out == df[i].product_name
               IN  IF hits # {}
                   THEN out = ListedRules[CHOOSE j \in hits : \A k \in hits : j <= k].label
                   ELSE IsTitleCaseOf(out, name)

\* a name that the usb-c rule and the mouse rule both match, and a name that no
\* rule matches
C11_Witness ==
    /\ NamesPassReturned
    /\ Len(input) = 2
    /\ input[1].product_name = <<"u", "s", "b", "-", "c", " ", "m", "o", "u", "s", "e">>
    /\ df[1].product_name = <<"U", "S", "B", "-", "C", " ", "C", "a", "b", "l", "e">>
    /\ input[2].product_name = <<"g", "a", "d", "g", "e", "t", " ", "p", "r", "o">>
    /\ df[2].product_name = <<"G", "a", "d", "g", "e", "t", " ", "P", "r", "o">>

\* C12: normalization is idempotent: normalizing a name the normalizer has
\* returned gives that name again; in particular every canonical name
\* normalizes to itself.
C12_Idempotent ==
    NamesPassReturned =>
        /\ _normalize_product_names(df) = df
        /\ \A j \in 1..Len(ListedRules) :
               normalize_product_name(lower(strip(ListedRules[j].label))) = ListedRules[j].label

\* a canonical name and a title-cased fallback have been returned, for names
\* that were not normalized before
C12_Witness ==
    /\ NamesPassReturned
    /\ Len(input) = 2
    /\ input[1].product_name = <<"U", "S", "B", "-", "C">>
    /\ df[1].product_name = <<"U", "S", "B", "-", "C", " ", "C", "a", "b", "l", "e">>
    /\ input[2].product_name = <<"3", "d", " ", "p", "e", "n">>
    /\ df[2].product_name = <<"3", "D", " ", "P", "e", "n">>

\* C14: a pass called with a table leaves that table as it was for its caller:
\* here the normalizer, called with the caller's own table, has returned, and
\* the caller's table still is the table the pass was called with.
C14_ArgumentUnchanged ==
    NamesPassReturned => raw = input

-----------------------------------------------------------------------------
(* 3. _standardize_dates                                                   *)
(*                                                                         *)
(* A date string is a sequence of lexical tokens: a maximal run of digits  *)
(* (its width and its value), a word (1..12: the full English month names; *)
(* larger codes: other words), or one of the marks "-", "/", ",", " ".     *)
(* A transaction_date cell is NaN (absent), a string, or, after the pass,  *)
(* a calendar date.                                                        *)

Digits(w, v) == [t |-> "num", w |-> w, v |-> v]

Word(v) == [t |-> "word", w |-> 0, v |-> v]

Mark(m) == [t |-> m, w |-> 0, v |-> 0]

Str(toks) == [k |-> "str", toks |-> toks]

Date(y, m, d) == [k |-> "date", y |-> y, m |-> m, d |-> d]

ValueError == [k |-> "ValueError"]

WordInvalid == 13
WordDate == 14
WordSmarch == 15

\* the literal 'Invalid Date'
InvalidDate == Str(<<Word(WordInvalid), Mark(" "), Word(WordDate)>>)

MinYear == 1900
MaxYear == 2030

\* the pivot of %y: 00..68 are 2000..2068, 69..99 are 1969..1999
PivotYear == 68

IsLeap(y) == (y % 4 = 0 /\ y % 100 # 0) \/ y % 400 = 0

DaysInMonth(y, m) ==
    IF m = 2 THEN (IF IsLeap(y) THEN 29 ELSE 28)
    ELSE IF m \in {4, 6, 9, 11} THEN 30 ELSE 31

\* what one element of a format accepts: the regular expressions strptime
\* compiles for %Y, %m, %d, %y and %B, and the literal characters
Accepts(e, tok) ==
    CASE e = "%Y" -> tok.t = "num" /\ tok.w = 4
      [] e = "%m" -> tok.t = "num" /\ \/ tok.w = 1 /\ tok.v \in 1..9
                                      \/ tok.w = 2 /\ tok.v \in 1..12
      [] e = "%d" -> tok.t = "num" /\ \/ tok.w = 1 /\ tok.v \in 1..9
                                      \/ tok.w = 2 /\ tok.v \in 1..31
      [] e = "%y" -> tok.t = "num" /\ tok.w = 2
      [] e = "%B" -> tok.t = "word" /\ tok.v \in 1..12
      [] OTHER -> tok.t = e

\* the value the format's element e (one of es) takes in toks
Field(toks, fmt, es) ==
    LET i == CHOOSE i \in 1..Len(fmt) : fmt[i] \in es
    IN  toks[i].v

\* datetime.strptime(date_str, fmt): the date, or ValueError when the string
\* does not match the format or names no day of the calendar
strptime(toks, fmt) ==
    IF Len(toks) # Len(fmt) \/ \E i \in 1..Len(fmt) : ~Accepts(fmt[i], toks[i])
    THEN ValueError
    ELSE LET yy == Field(toks, fmt, {"%Y", "%y"})
             y == IF \E i \in 1..Len(fmt) : fmt[i] = "%Y" THEN yy
                  ELSE IF yy <= PivotYear THEN 2000 + yy ELSE 1900 + yy
             m == Field(toks, fmt, {"%m", "%B"})
             d == Field(toks, fmt, {"%d"})
         IN  IF y < 1 \/ d > DaysInMonth(y, m) THEN ValueError ELSE Date(y, m, d)

\* a format list that tries MM/DD/YYYY before DD/MM/YYYY
formats_month_first ==
    << <<"%Y", "-", "%m", "-", "%d">>,
       <<"%Y", "/", "%m", "/", "%d">>,
       <<"%m", "/", "%d", "/", "%Y">>,
       <<"%d", "/", "%m", "/", "%Y">>,
       <<"%B", " ", "%d", ",", " ", "%Y">>,
       <<"%d", "-", "%m", "-", "%y">>,
       <<"%m", "/", "%d", "/", "%y">> >>

formats ==
    << <<"%Y", "-", "%m", "-", "%d">>,
       <<"%Y", "/", "%m", "/", "%d">>,
       <<"%d", "/", "%m", "/", "%Y">>,
       <<"%m", "/", "%d", "/", "%Y">>,
       <<"%B", " ", "%d", ",", " ", "%Y">>,
       <<"%d", "-", "%m", "-", "%y">>,
       <<"%m", "/", "%d", "/", "%y">> >>

\* a loop that returns the first date that parses, whatever its year
RECURSIVE try_formats_any_year(_, _)
try_formats_any_year(toks, i) ==
    IF i > Len(formats) THEN NaN
    ELSE LET parsed_date == strptime(toks, formats[i])
         IN  IF parsed_date.k = "date" THEN parsed_date
             ELSE try_formats_any_year(toks, i + 1)

\* the for loop of parse_date from its i-th format on
RECURSIVE try_formats(_, _)
try_formats(toks, i) ==
    IF i > Len(formats) THEN NaN
    ELSE LET parsed_date == strptime(toks, formats[i])
         IN  IF parsed_date.k = "date" /\ MinYear <= parsed_date.y /\ parsed_date.y <= MaxYear
             THEN parsed_date
             ELSE try_formats(toks, i + 1)

parse_date(date_str) ==
    IF isna(date_str) \/ date_str = InvalidDate THEN NaN
    ELSE try_formats(date_str.toks, 1)

\* df['transaction_date'] = df['transaction_date'].apply(parse_date)
apply_parse_date(t) ==
    [i \in 1..Len(t) |->
        [t[i] EXCEPT !.transaction_date = parse_date(t[i].transaction_date)]]

_standardize_dates(t) ==
    LET parsed == apply_parse_date(t)
    IN  Filter(parsed, LAMBDA i : notna(parsed[i].transaction_date))

call_standardize_dates ==
    /\ pc = "dates"
    /\ input' = df
    /\ df' = _standardize_dates(df)
    /\ raw' = assigned_in_place(apply_parse_date(df))
    /\ ref' = "own"
    /\ pc' = "dups"
    /\ UNCHANGED <<final_check, writes>>

-----------------------------------------------------------------------------
(* Inputs of the date pass                                                 *)

MaxDateRows == 2

Numeric(a, sep, b, c) == Str(<<a, Mark(sep), b, Mark(sep), c>>)

Long(w, d, y) == Str(<<Word(w), Mark(" "), d, Mark(","), Mark(" "), y>>)

RawDates ==
    {NaN, InvalidDate, Str(<<Word(WordInvalid)>>)}
    \cup {Numeric(Digits(4, y), sep, Digits(2, m), Digits(2, d)) :
            y \in {1850, 2025, 2031}, sep \in {"-", "/"}, m \in {3, 13}, d \in {9}}
    \cup {Numeric(Digits(2, d), sep, Digits(2, m), y) :
            d \in {3, 13}, sep \in {"-", "/"}, m \in {9, 13},
            y \in {Digits(4, 2025), Digits(2, 25), Digits(2, 50)}}
    \cup {Numeric(Digits(2, 3), sep, Digits(2, 9), Digits(4, 1850)) : sep \in {"-", "/"}}
    \cup {Numeric(Digits(4, y), "-", Digits(2, 2), Digits(2, 29)) : y \in {2024, 2025}}
    \cup {Numeric(Digits(1, 3), "/", Digits(1, 9), Digits(2, 69))}
    \cup {Long(w, Digits(2, d), Digits(4, 2025)) : w \in {2, 3}, d \in {9, 30}}
    \cup {Long(3, Digits(2, 9), Digits(4, 1850))}
    \cup {Long(WordSmarch, Digits(2, 9), Digits(4, 2025))}

DateRows == {[BaseRow EXCEPT !.transaction_date = c] : c \in RawDates}

InitDates ==
    /\ pc = "dates"
    /\ RawTableOf(DateRows, MaxDateRows)
    /\ df = raw
    /\ ref = "arg"
    /\ input = <<>>
    /\ final_check = <<>>
    /\ writes = <<>>

NextDates == call_standardize_dates

SpecDates == InitDates /\ [][NextDates]_vars

DatesPassReturned == pc = "dups"

\* the seven formats in the order the specification lists them
ListedFormats ==
    << <<"%Y", "-", "%m", "-", "%d">>,
       <<"%Y", "/", "%m", "/", "%d">>,
       <<"%d", "/", "%m", "/", "%Y">>,
       <<"%m", "/", "%d", "/", "%Y">>,
       <<"%B", " ", "%d", ",", " ", "%Y">>,
       <<"%d", "-", "%m", "-", "%y">>,
       <<"%m", "/", "%d", "/", "%y">> >>

\* format f reads the string as a date whose year is in [1900, 2030]
AcceptedBy(c, f) ==
    LET p == strptime(c.toks, ListedFormats[f])
    IN  p.k = "date" /\ p.y >= 1900 /\ p.y <= 2030

Unparseable(c) ==
    \/ isna(c)
    \/ c = InvalidDate
    \/ \A f \in 1..Len(ListedFormats) : ~AcceptedBy(c, f)

MentionsYear(c, y) == c.k = "str" /\ \E i \in 1..Len(c.toks) : c.toks[i] = Digits(4, y)

IsCalendarDate(c) ==
    /\ c.k = "date"
    /\ c.m \in 1..12
    /\ c.d \in 1..DaysInMonth(c.y, c.m)

\* C2: the Date Standardizer drops a row exactly when its raw transaction_date
\* is absent, is "Invalid Date", or is accepted by none of the seven formats
\* with a year in [1900, 2030]; a string with the year 1850 is dropped; every
\* surviving row carries a calendar date with a year in [1900, 2030].
C2_DropsExactlyUnparseable ==
    DatesPassReturned =>
        /\ \A i \in 1..Len(input) :
               LET c == input[i].transaction_date
                   kept == HasId(df, input[i].transaction_id)
               IN  /\ kept <=> ~Unparseable(c)
                   /\ MentionsYear(c, 1850) => ~kept
        /\ \A j \in 1..Len(df) :
               LET c == df[j].transaction_date
               IN  IsCalendarDate(c) /\ c.y >= 1900 /\ c.y <= 2030

\* a table whose first row is dated in 1850 (dropped) and whose second row
\* survives
C2_Witness ==
    /\ DatesPassReturned
    /\ Len(input) = 2 /\ Len(df) = 1
    /\ MentionsYear(input[1].transaction_date, 1850)
    /\ df[1].transaction_id = 2

\* the cell the pass leaves for the i-th row of its input (NaN: dropped)
DateResult(i) ==
    IF HasId(df, input[i].transaction_id)
    THEN RowOf(df, input[i].transaction_id).transaction_date
    ELSE NaN

SlashDate(a, b, y) == Numeric(Digits(2, a), "/", Digits(2, b), Digits(4, y))

-----------------------------------------------------------------------------
(* 4. _remove_duplicates                                                   *)

columns ==
    {"transaction_id", "customer_id", "product_id", "product_name",
     "quantity", "price_per_unit", "total_price", "transaction_date"}

\* df.columns.difference(['transaction_id'])
dedup_subset == columns \ {"transaction_id"}

duplicated_of(t, i, j) == \A c \in dedup_subset : t[i][c] = t[j][c]

\* drop_duplicates(keep='last')
_remove_duplicates_keep_last(t) ==
    Filter(t, LAMBDA i : ~\E j \in (i + 1)..Len(t) : duplicated_of(t, i, j))

\* the first occurrences, delivered in reverse order
_remove_duplicates_reversed(t) ==
    LET kept == Filter(t, LAMBDA i : ~\E j \in 1..(i - 1) : duplicated_of(t, i, j))
    IN  [i \in 1..Len(kept) |-> kept[Len(kept) + 1 - i]]

\* drop_duplicates(subset=...) with the default keep='first'
_remove_duplicates(t) ==
    Filter(t, LAMBDA i : ~\E j \in 1..(i - 1) : duplicated_of(t, i, j))

call_remove_duplicates ==
    /\ pc = "dups"
    /\ input' = df
    /\ df' = _remove_duplicates(df)
    /\ ref' = "own"
    /\ pc' = "outliers"
    /\ UNCHANGED <<raw, final_check, writes>>

-----------------------------------------------------------------------------
(* Inputs of the duplicate pass                                            *)

MaxDupRows == 3

DupRows ==
    {[BaseRow EXCEPT !.customer_id = c, !.quantity = q, !.transaction_date = d] :
        c \in {"CUST001", "CUST002"},
        q \in {Fin(2, 1), Fin(3, 1)},
        d \in {Date(2025, 3, 9), Date(2025, 3, 10)}}

InitDups ==
    /\ pc = "dups"
    /\ RawTableOf(DupRows, MaxDupRows)
    /\ df = raw
    /\ ref = "arg"
    /\ input = <<>>
    /\ final_check = <<>>
    /\ writes = <<>>

NextDups == call_remove_duplicates

SpecDups == InitDups /\ [][NextDups]_vars

DupsPassReturned == pc = "outliers"

\* equal on every column but transaction_id
ContentEqual(r1, r2) ==
    /\ r1.customer_id = r2.customer_id
    /\ r1.product_id = r2.product_id
    /\ r1.product_name = r2.product_name
    /\ r1.quantity = r2.quantity
    /\ r1.price_per_unit = r2.price_per_unit
    /\ r1.total_price = r2.total_price
    /\ r1.transaction_date = r2.transaction_date

\* the position of the first row of t content-equal to r
FirstOfGroup(t, r) ==
    CHOOSE i \in 1..Len(t) :
        ContentEqual(t[i], r) /\ \A j \in 1..(i - 1) : ~ContentEqual(t[j], r)

IsSubsequenceOf(a, b) ==
    \E pos \in [1..Len(a) -> 1..Len(b)] :
        /\ \A j \in 1..Len(a) : a[j] = b[pos[j]]
        /\ \A j \in 1..(Len(a) - 1) : pos[j] < pos[j + 1]

\* C4: of every group of rows equal on all columns but transaction_id the
\* Duplicate Eliminator retains exactly one row, the first of the group in
\* input order, with its transaction_id and its other cells unchanged; a row
\* with no earlier content-duplicate is not removed; the order is kept.
C4_KeepsFirstOfEachGroup ==
    DupsPassReturned =>
        /\ \A i \in 1..Len(input) :
               LET group == {j \in 1..Len(df) : ContentEqual(df[j], input[i])}
               IN  /\ Cardinality(group) = 1
                   /\ \A j \in group : df[j] = input[FirstOfGroup(input, input[i])]
                   /\ (\A j \in 1..(i - 1) : ~ContentEqual(input[j], input[i]))
                          => HasId(df, input[i].transaction_id)
        /\ IsSubsequenceOf(df, input)

\* rows 1 and 3 differ in transaction_id only, row 2 is different: rows 1
\* and 2 are what is left
C4_Witness ==
    /\ DupsPassReturned
    /\ Len(input) = 3
    /\ ContentEqual(input[1], input[3]) /\ ~ContentEqual(input[1], input[2])
    /\ df = <<input[1], input[2]>>

-----------------------------------------------------------------------------
(* 5. _handle_outliers                                                     *)

QuantityLimit == 100
PriceLimit == 1000

\* ~np.isclose(total_price, quantity * price_per_unit, rtol=0, atol=0.01)
mismatch(r) == ~isclose(r.total_price, FMul(r.quantity, r.price_per_unit))

\* the corrections with the conflict rule recomputing the price
correct_row_conflict_fixes_price(r) ==
    LET mismatches == mismatch(r)
        conflict_mask ==
            mismatches /\ FGt(r.quantity, QuantityLimit) /\ FGt(r.price_per_unit, PriceLimit)
        r1 == IF conflict_mask
              THEN [r EXCEPT !.price_per_unit = FDiv(r.total_price, r.quantity)]
              ELSE r
        mask_q == mismatches /\ FGt(r1.quantity, QuantityLimit) /\ ~conflict_mask
        r2 == IF mask_q
              THEN [r1 EXCEPT !.quantity = FDiv(r1.total_price, r1.price_per_unit)]
              ELSE r1
        mask_p == mismatches /\ FGt(r2.price_per_unit, PriceLimit) /\ ~conflict_mask
        r3 == IF mask_p
              THEN [r2 EXCEPT !.price_per_unit = FDiv(r2.total_price, r2.quantity)]
              ELSE r2
        mask_t == mismatches /\ ~(mask_q \/ mask_p \/ conflict_mask)
    IN  IF mask_t
        THEN [r3 EXCEPT !.total_price = FMul(r3.quantity, r3.price_per_unit)]
        ELSE r3

\* the corrections with mask_p not excluding the conflict rows
correct_row_price_mask_keeps_conflicts(r) ==
    LET mismatches == mismatch(r)
        conflict_mask ==
            mismatches /\ FGt(r.quantity, QuantityLimit) /\ FGt(r.price_per_unit, PriceLimit)
        r1 == IF conflict_mask
              THEN [r EXCEPT !.quantity = FDiv(r.total_price, r.price_per_unit)]
              ELSE r
        mask_q == mismatches /\ FGt(r1.quantity, QuantityLimit) /\ ~conflict_mask
        r2 == IF mask_q
              THEN [r1 EXCEPT !.quantity = FDiv(r1.total_price, r1.price_per_unit)]
              ELSE r1
        mask_p == mismatches /\ FGt(r2.price_per_unit, PriceLimit)
        r3 == IF mask_p
              THEN [r2 EXCEPT !.price_per_unit = FDiv(r2.total_price, r2.quantity)]
              ELSE r2
        mask_t == mismatches /\ ~(mask_q \/ mask_p \/ conflict_mask)
    IN  IF mask_t
        THEN [r3 EXCEPT !.total_price = FMul(r3.quantity, r3.price_per_unit)]
        ELSE r3

\* the four masked assignments on one row, in the order the source applies
\* them to the table: mismatches is computed once on entry, every other mask
\* from the table as the earlier assignments left it
correct_row(r) ==
    LET mismatches == mismatch(r)
        conflict_mask ==
            mismatches /\ FGt(r.quantity, QuantityLimit) /\ FGt(r.price_per_unit, PriceLimit)
        r1 == IF conflict_mask
              THEN [r EXCEPT !.quantity = FDiv(r.total_price, r.price_per_unit)]
              ELSE r
        mask_q == mismatches /\ FGt(r1.quantity, QuantityLimit) /\ ~conflict_mask
        r2 == IF mask_q
              THEN [r1 EXCEPT !.quantity = FDiv(r1.total_price, r1.price_per_unit)]
              ELSE r1
        mask_p == mismatches /\ FGt(r2.price_per_unit, PriceLimit) /\ ~conflict_mask
        r3 == IF mask_p
              THEN [r2 EXCEPT !.price_per_unit = FDiv(r2.total_price, r2.quantity)]
              ELSE r2
        mask_t == mismatches /\ ~(mask_q \/ mask_p \/ conflict_mask)
    IN  IF mask_t
        THEN [r3 EXCEPT !.total_price = FMul(r3.quantity, r3.price_per_unit)]
        ELSE r3

\* "Round values consistently"
round_row(r) ==
    [r EXCEPT !.quantity = FRound(r.quantity, 0),
              !.price_per_unit = FRound(r.price_per_unit, 2),
              !.total_price = FRound(r.total_price, 2)]

\* round(0).astype("Int64") raises TypeError on an infinite quantity (the cast
\* to int64 is not value-preserving); a NaN becomes <NA>
int64_cast_raises(t) == \E i \in 1..Len(t) : t[i].quantity.k = "inf"

\* the table after the corrections and the rounding
corrected(t) == Map(Map(t, correct_row), round_row)

\* a recheck computed on the table as it is before the rounding
recheck_before_rounding(t) == [i \in 1..Len(t) |-> mismatch(correct_row(t[i]))]

\* final_check: the mismatch test on the corrected, rounded table
recheck(t) ==
    LET c == corrected(t)
    IN  [i \in 1..Len(t) |-> mismatch(c[i])]

call_handle_outliers ==
    /\ pc = "outliers"
    /\ input' = df
    /\ LET c == corrected(df)
       IN  IF int64_cast_raises(c)
           THEN /\ pc' = "raised"
                /\ raw' = assigned_in_place(Map(df, correct_row))
                /\ UNCHANGED <<df, final_check>>
           ELSE /\ df' = c
                /\ raw' = assigned_in_place(c)
                /\ final_check' = recheck(df)
                /\ pc' = "types"
    /\ UNCHANGED <<ref, writes>>

-----------------------------------------------------------------------------
(* Inputs of the reconciler                                                *)

MaxOutlierRows == 2

OutlierQuantities == {Fin(0, 1), Fin(5, 2), Fin(150, 1)}
OutlierPrices == {Fin(0, 1), Fin(10, 1), Fin(1500, 1)}
OutlierTotals == {Fin(0, 1), Fin(25, 1), Fin(300, 1), Fin(1000, 1), Fin(150002, 100)}

OutlierRows ==
    {[BaseRow EXCEPT !.quantity = q, !.price_per_unit = p, !.total_price = t,
                     !.transaction_date = Date(2025, 3, 9)] :
        q \in OutlierQuantities, p \in OutlierPrices, t \in OutlierTotals}

InitOutliers ==
    /\ pc = "outliers"
    /\ RawTableOf(OutlierRows, MaxOutlierRows)
    /\ df = raw
    /\ ref = "arg"
    /\ input = <<>>
    /\ final_check = <<>>
    /\ writes = <<>>

NextOutliers == call_handle_outliers

SpecOutliers == InitOutliers /\ [][NextOutliers]_vars

OutliersPassReturned == pc = "types"

Numbers == {"quantity", "price_per_unit", "total_price"}

\* |total_price - quantity * price_per_unit| > 0.01, on finite cells
Flagged(r) ==
    LET e == FMul(r.quantity, r.price_per_unit)
        t == r.total_price
    IN  Abs(t.n * e.d - e.n * t.d) * 100 > t.d * e.d

\* the cell of column f rounded as the pass rounds that column
Rounded(f, x) == IF f = "quantity" THEN FRound(x, 0) ELSE FRound(x, 2)

\* the field the precedence selects and the value it is recomputed to
Selected(r) ==
    IF FGt(r.quantity, 100) /\ FGt(r.price_per_unit, 1000) THEN "quantity"
    ELSE IF FGt(r.quantity, 100) THEN "quantity"
    ELSE IF FGt(r.price_per_unit, 1000) THEN "price_per_unit"
    ELSE "total_price"

Recomputed(r) ==
    CASE Selected(r) = "quantity" -> FDiv(r.total_price, r.price_per_unit)
      [] Selected(r) = "price_per_unit" -> FDiv(r.total_price, r.quantity)
      [] OTHER -> FMul(r.quantity, r.price_per_unit)

Triple(q, p, t) == [quantity |-> Fin(q, 1), price_per_unit |-> Fin(p, 1), total_price |-> Fin(t, 1)]

NumbersOf(r) == [f \in Numbers |-> r[f]]

\* C6: a flagged row leaves the reconciler with the field the precedence
\* selects (quantity if quantity > 100, whether or not price_per_unit > 1000;
\* else price_per_unit if price_per_unit > 1000; else total_price) recomputed
\* from the other two and rounded; (150, 1500, 300) ends with quantity 0 and
\* (150, 10, 1000) with quantity 100.
C6_CorrectionFollowsPrecedence ==
    OutliersPassReturned =>
        /\ Len(df) = Len(input)
        /\ \A i \in 1..Len(input) :
               LET r == input[i]
                   o == df[i]
               IN  /\ Flagged(r) => o[Selected(r)] = Rounded(Selected(r), Recomputed(r))
                   /\ NumbersOf(r) = Triple(150, 1500, 300) => o.quantity = Fin(0, 1)
                   /\ NumbersOf(r) = Triple(150, 10, 1000) => o.quantity = Fin(100, 1)

\* both rows of the specification's example have been reconciled
C6_Witness ==
    /\ OutliersPassReturned
    /\ Len(input) = 2
    /\ NumbersOf(input[1]) = Triple(150, 1500, 300) /\ Flagged(input[1])
    /\ NumbersOf(input[2]) = Triple(150, 10, 1000) /\ Flagged(input[2])
    /\ df[1].quantity = Fin(0, 1) /\ df[2].quantity = Fin(100, 1)

Changed(r, o) == {f \in Numbers : o[f] # r[f]}

\* C7 as stated: every flagged row leaves the reconciler with exactly one of
\* quantity, price_per_unit, total_price different from its value on entry.
C7_ExactlyOneFieldChanges ==
    OutliersPassReturned =>
        \A i \in 1..Len(input) :
            Flagged(input[i]) => Cardinality(Changed(input[i], df[i])) = 1

\* C7 as amended: of every flagged row of a table the reconciler returns for,
\* only the field the precedence selects is recomputed; the other two leave
\* the pass with their entry values rounded
\* (quantity to an integer, the prices to 2 decimals), so on rounded input at
\* most one field changes (none when the recomputed value rounds back).
C7_AtMostOneFieldRecomputed ==
    OutliersPassReturned =>
        \A i \in 1..Len(input) :
            LET r == input[i]
                o == df[i]
            IN  Flagged(r) =>
                    /\ \A f \in Numbers \ {Selected(r)} : o[f] = Rounded(f, r[f])
                    /\ (\A f \in Numbers : r[f] = Rounded(f, r[f]))
                           => Cardinality(Changed(r, o)) <= 1

\* a flagged row whose recomputed quantity rounds back to 150 (nothing
\* changes) next to a flagged row of which only total_price changes
C7_Witness ==
    /\ OutliersPassReturned
    /\ Len(input) = 2
    /\ Flagged(input[1]) /\ Changed(input[1], df[1]) = {}
    /\ Flagged(input[2]) /\ Changed(input[2], df[2]) = {"total_price"}

\* C17: a record the reconciler does not flag as a mismatch
\* (|total_price - quantity * price_per_unit| <= 0.01 on entry) leaves the pass
\* with its quantity, price_per_unit and total_price unchanged, and so is not
\* among the residual mismatches of the recheck after rounding.
C17_UnflaggedUntouched ==
    OutliersPassReturned =>
        \A i \in 1..Len(input) :
            ~Flagged(input[i]) =>
                /\ NumbersOf(df[i]) = NumbersOf(input[i])
                /\ ~final_check[i]

-----------------------------------------------------------------------------
(* clean_data                                                              *)

\* cleaned_df = df, without the copy
call_copy_alias ==
    /\ pc = "copy"
    /\ df' = raw
    /\ ref' = "arg"
    /\ pc' = "missing"
    /\ UNCHANGED <<raw, input, final_check, writes>>

\* cleaned_df = df.copy()
call_copy ==
    /\ pc = "copy"
    /\ df' = raw
    /\ ref' = "own"
    /\ pc' = "missing"
    /\ UNCHANGED <<raw, input, final_check, writes>>

\* astype(int) of the Int64 quantity raises on <NA>; the casts keep every value
finalize_types ==
    /\ pc = "types"
    /\ IF \E i \in 1..Len(df) : isna(df[i].quantity)
       THEN pc' = "raised"
       ELSE pc' = "done"
    /\ UNCHANGED <<raw, input, df, final_check, ref, writes>>

MaxRows == 2

\* quantity, price_per_unit, total_price of the input rows:
\*   consistent; total off by 5; quantity missing; two missing;
\*   price missing with quantity 0 and a negative total; both limits exceeded;
\*   quantity over the limit with price 0; quantity missing, not a whole number
CleanNumbers ==
    { <<Fin(2, 1), Fin(10, 1), Fin(20, 1)>>,
      <<Fin(2, 1), Fin(10, 1), Fin(25, 1)>>,
      <<NaN, Fin(10, 1), Fin(20, 1)>>,
      <<Fin(2, 1), NaN, NaN>>,
      <<Fin(0, 1), NaN, Fin(-5, 1)>>,
      <<Fin(150, 1), Fin(1500, 1), Fin(300, 1)>>,
      <<Fin(150, 1), Fin(0, 1), Fin(20, 1)>>,
      <<NaN, Fin(3, 1), Fin(10, 1)>> }

CleanNames ==
    { <<"l", "a", "p", "t", "o", "p">>,
      <<" ", "L", "a", "p", "t", "o", "p", " ">> }

CleanDates ==
    { Numeric(Digits(4, 2025), "-", Digits(2, 3), Digits(2, 9)),
      Str(<<Word(WordInvalid)>>) }

CleanRows ==
    {[BaseRow EXCEPT !.quantity = x[1], !.price_per_unit = x[2], !.total_price = x[3],
                     !.product_name = n, !.transaction_date = d] :
        x \in CleanNumbers, n \in CleanNames, d \in CleanDates}

Init ==
    /\ pc = "copy"
    /\ RawTableOf(CleanRows, MaxRows)
    /\ df = raw
    /\ ref = "arg"
    /\ input = <<>>
    /\ final_check = <<>>
    /\ writes = <<>>

Next ==
    \/ call_copy
    \/ call_handle_missing_values
    \/ call_normalize_product_names
    \/ call_standardize_dates
    \/ call_remove_duplicates
    \/ call_handle_outliers
    \/ finalize_types

Spec == Init /\ [][Next]_vars

Returned == pc = "done"

\* C1: no row of the table clean_data returns has a missing quantity,
\* price_per_unit, total_price or transaction_date.
C1_NoMissingValues ==
    Returned =>
        \A j \in 1..Len(df) :
            /\ notna(df[j].quantity)
            /\ notna(df[j].price_per_unit)
            /\ notna(df[j].total_price)
            /\ notna(df[j].transaction_date)

\* C5: no two rows of the table clean_data returns are equal on all columns
\* other than transaction_id.
C5_NoContentDuplicates ==
    Returned =>
        \A i \in 1..Len(df) : \A j \in 1..Len(df) :
            i # j => ~ContentEqual(df[i], df[j])

\* |total_price - quantity * price_per_unit| <= 0.01
WithinTolerance(r) ==
    /\ isfinite(r.quantity) /\ isfinite(r.price_per_unit) /\ isfinite(r.total_price)
    /\ ~Flagged(r)

\* C8: every row of the table clean_data returns has
\* |total_price - quantity * price_per_unit| <= 0.01 or is one of the residual
\* mismatches the reconciler's recheck after rounding counted.
C8_MismatchesAreReported ==
    Returned =>
        /\ Len(final_check) = Len(df)
        /\ \A j \in 1..Len(df) : WithinTolerance(df[j]) \/ final_check[j]

\* the returned table holds a consistent row and a reported residual mismatch
C8_Witness ==
    /\ Returned
    /\ Len(df) = 2
    /\ WithinTolerance(df[1]) /\ ~final_check[1]
    /\ ~WithinTolerance(df[2]) /\ final_check[2]

\* C13: clean_data never changes the table its caller passed (rows, values and
\* order stay as they were, for every input), and the table it returns is an
\* object of its own, not the caller's.
C13_CallerTableUnchanged ==
    /\ [][raw' = raw]_vars
    /\ [](Returned => ref = "own")

\* clean_data has returned a repaired row, and the caller's table still holds
\* the row with its quantity missing
C13_Witness ==
    /\ Returned
    /\ ref = "own"
    /\ Len(raw) = 1 /\ Len(df) = 1
    /\ isna(raw[1].quantity) /\ notna(df[1].quantity)
    /\ raw[1].product_name # df[1].product_name

TransactionIds(t) == [i \in 1..Len(t) |-> t[i].transaction_id]

\* C18: rows are only ever removed, never added, duplicated or reordered: at
\* every point of clean_data, the returned table included, the transaction_ids
\* of the current table are an order-preserving subsequence of those of the
\* caller's table; and the normalizer, the reconciler and the type finalizer
\* remove no row (the table they leave has the transaction_ids of the table
\* they were given).
C18_RowsOnlyRemoved ==
    /\ IsSubsequenceOf(TransactionIds(df), TransactionIds(raw))
    /\ NamesPassReturned => TransactionIds(df) = TransactionIds(input)
    /\ OutliersPassReturned => TransactionIds(df) = TransactionIds(input)
    /\ Returned => TransactionIds(df) = TransactionIds(input)

\* clean_data has returned the second of two rows; the first was dropped
C18_Witness ==
    /\ Returned
    /\ Len(raw) = 2
    /\ TransactionIds(df) = <<2>>

\* C15: defects of single records (missing values, unparseable dates,
\* mismatches, a corrective division by zero included) never make clean_data
\* raise: every run completes and returns a table.
C15_NeverRaises ==
    pc # "raised"

-----------------------------------------------------------------------------
(* main: the ETL run.  pc = "raised" is an exception on its way out of the *)
(* called function; in main it reaches the except clause.                  *)

\* raw_df = load_raw_data(): pd.read_csv reads the file or raises
load_raw_data ==
    /\ pc = "extract"
    /\ \E ok \in BOOLEAN : pc' = IF ok THEN "analyze" ELSE "raised"
    /\ UNCHANGED <<raw, input, df, final_check, ref, writes>>

\* analyze_data(raw_df) prints its report and changes nothing
analyze_data ==
    /\ pc = "analyze"
    /\ pc' = "clean"
    /\ UNCHANGED <<raw, input, df, final_check, ref, writes>>

\* cleaned_df = clean_data(raw_df): the parameter df is the caller's raw_df
call_clean_data ==
    /\ pc = "clean"
    /\ df' = raw
    /\ ref' = "arg"
    /\ pc' = "copy"
    /\ UNCHANGED <<raw, input, final_check, writes>>

\* export_to_csv(cleaned_df): df.to_csv writes the file or raises
export_to_csv ==
    /\ pc = "done"
    /\ \E ok \in BOOLEAN :
           /\ writes' = Append(writes, [sink |-> "csv", ok |-> ok])
           /\ pc' = IF ok THEN "load" ELSE "raised"
    /\ UNCHANGED <<raw, input, df, final_check, ref>>

\* load_to_postgresql(cleaned_df): an exception of create_engine or df.to_sql
\* is caught inside, printed, and turned into the return value False; main
\* does not look at the return value
load_to_postgresql ==
    /\ pc = "load"
    /\ \E ok \in BOOLEAN : writes' = Append(writes, [sink |-> "sql", ok |-> ok])
    /\ pc' = "completed"
    /\ UNCHANGED <<raw, input, df, final_check, ref>>

\* except Exception as e: report the failure and raise
main_except ==
    /\ pc = "raised"
    /\ pc' = "failed"
    /\ UNCHANGED <<raw, input, df, final_check, ref, writes>>

InitMain ==
    /\ pc = "extract"
    /\ RawTableOf(CleanRows, MaxRows)
    /\ df = <<>>
    /\ ref = "arg"
    /\ input = <<>>
    /\ final_check = <<>>
    /\ writes = <<>>

NextMain ==
    \/ load_raw_data
    \/ analyze_data
    \/ call_clean_data
    \/ Next
    \/ export_to_csv
    \/ load_to_postgresql
    \/ main_except

SpecMain == InitMain /\ [][NextMain]_vars

Completed == pc = "completed"

\* C16: a run in which the write of the cleaned export or the load into the
\* relational store has failed does not reach "completed successfully", and
\* no sink is written a second time.
C16_SinkFailureFailsRun ==
    /\ Completed => \A i \in 1..Len(writes) : writes[i].ok
    /\ \A i \in 1..Len(writes) : \A j \in 1..Len(writes) :
           i # j => writes[i].sink # writes[j].sink

====
